---------------------------- MODULE Spec2Model ----------------------------
(***************************************************************************)
(* Speed-limit resolution pipeline of gps-info:                            *)
(*   SpeedLimitService      (src/src/services/speedLimitService.ts)        *)
(*   HereSpeedLimitService  (src/src/services/hereSpeedLimitService.ts)    *)
(*                                                                         *)
(* Every asynchronous call is cut at its await points: one action is the   *)
(* synchronous code between two suspensions.  Date.now() read inside a     *)
(* step is the clock value of that step.                                   *)
(***************************************************************************)
EXTENDS Integers, Sequences, FiniteSets, Bags, TLC

(***************************************************************************)
(* Bounds of the model.                                                    *)
(***************************************************************************)
MaxTicks == 3
MaxInFlight == 2
MaxCallers == 5
MaxCoord == 16
MaxSpeed == 64
MaxDistance == 40
MaxElements == 3

(***************************************************************************)
(* Time.  The model's clock counts units of TimeUnit milliseconds, so that *)
(* thirty days stay within TLC's integers; Ms(x) is x milliseconds.  Every *)
(* duration of the program is a multiple of TimeUnit.                      *)
(***************************************************************************)
TimeUnit == 5 * 50
Ms(x) == x \div TimeUnit

(***************************************************************************)
(* Program constants.                                                      *)
(***************************************************************************)
CACHE_DURATION == Ms(5 * 60 * 1000)
MIN_REQUEST_INTERVAL == Ms(15000)
MONTHLY_LIMIT == 25000
GEOCODING_RPS == 4
ROUTING_RPS == 8
\* FLEET_RPS = 0.8, kept in tenths of a request per second.
FLEET_RPS_TENTHS == 8
\* oneMonth of checkRateLimit
ONE_MONTH == Ms(30 * 24 * 60 * 60) * 1000
\* initializeHereAPI: requestTimeout 10000, maxRetries 2.
REQUEST_TIMEOUT == Ms(10000)
MAX_RETRIES == 2
\* The literals of waitForRateLimit and makeRequest.
RATE_WINDOW == Ms(1000)
BACKOFF_BASE == Ms(1000)
BACKOFF_CAP == Ms(10000)
RETRY_DELAY == Ms(1000)

ApiTypes == {"geocoding", "routing", "fleet"}

(***************************************************************************)
(* Data.  SpeedLimitData is a record; null is the record NULL.  A speed    *)
(* limit of null is NoLimit; a source not yet set is "undefined".          *)
(***************************************************************************)
NoLimit == 0 - 1
NULL == [speedLimit |-> NoLimit, unit |-> "null", accuracy |-> "null",
         timestamp |-> 0, source |-> "null"]

\* Locations in units of 0.0001 degree: <<latitude, longitude>>.
Locations == { <<430000, 210000>>, <<430004, 210001>>, <<430006, 210000>> }

\* A formatting that cuts the digits after the third decimal instead of
\* rounding.
ToFixed3Truncates(x) ==
    IF x >= 0 THEN << "", x \div 10 >> ELSE << "-", (0 - x) \div 10 >>

\* Number.prototype.toFixed(3) of a coordinate given in 0.0001 degree: the
\* sign ("-" for every x < 0, also when the digits are all 0) and the
\* magnitude rounded to the nearest 0.001, half up, in units of 0.001 degree.
ToFixed3(x) ==
    IF x >= 0 THEN << "", (x + 5) \div 10 >> ELSE << "-", ((0 - x) + 5) \div 10 >>

CacheKey(loc) == << ToFixed3(loc[1]), ToFixed3(loc[2]) >>

Keys == { CacheKey(l) : l \in Locations }

(***************************************************************************)
(* The fallback provider's parsing (speedLimitService.ts).                 *)
(***************************************************************************)
\* A maxspeed tag: the first run of digits it holds (NoLimit when it holds
\* none) and whether the lower-cased tag contains "mph".
MaxspeedTags == { [num |-> 50, mph |-> TRUE] }

\* Math.round(value * 1.60934) for a non-negative integer value.
MphToKmh(value) == (value * 160934 + 50000) \div 100000

\* A parsing that hands on the mph number and its unit as they are.
ParseSpeedLimitKeepsMph(maxspeed) ==
    IF maxspeed.num = NoLimit
    THEN [value |-> NoLimit, unit |-> "km/h"]
    ELSE [value |-> maxspeed.num, unit |-> IF maxspeed.mph THEN "mph" ELSE "km/h"]

\* parseSpeedLimit(maxspeed): the first run of digits, converted when the tag
\* contains "mph"; the unit of the result is always 'km/h' (line 264).
ParseSpeedLimit(maxspeed) ==
    IF maxspeed.num = NoLimit
    THEN [value |-> NoLimit, unit |-> "km/h"]
    ELSE [value |-> IF maxspeed.mph THEN MphToKmh(maxspeed.num) ELSE maxspeed.num,
          unit |-> "km/h"]

\* A mapping that puts the boundary distances into the lower class.
AccuracyFromDistanceStrict(minDistance) ==
    IF minDistance >= 35 THEN "low"
    ELSE IF minDistance >= 20 THEN "medium"
    ELSE "high"

\* The accuracy of the selected way from its distance in meters.
AccuracyFromDistance(minDistance) ==
    IF minDistance > 35 THEN "low"
    ELSE IF minDistance > 20 THEN "medium"
    ELSE "high"

\* The distances (meters) of the selected way that a response may carry.
Distances == { 20 }

\* What an Overpass exchange can end in: a body whose closest tagged way is
\* at `distance` with tag `maxspeed`, a body with no usable element, or an
\* error (fetch rejected, non-2xx status, body that is no JSON).
OsmOutcomes ==
    { [kind |-> "match", distance |-> d, maxspeed |-> m] :
          d \in Distances, m \in MaxspeedTags }
    \cup { [kind |-> "empty", distance |-> 0, maxspeed |-> [num |-> NoLimit, mph |-> FALSE]],
           [kind |-> "error", distance |-> 0, maxspeed |-> [num |-> NoLimit, mph |-> FALSE]] }

\* parseOverpassResponse on a body whose best match is known.
ParseOverpassResponse(o, t) ==
    IF o.kind # "match" THEN NULL
    ELSE [speedLimit |-> ParseSpeedLimit(o.maxspeed).value,
          unit |-> ParseSpeedLimit(o.maxspeed).unit,
          accuracy |-> AccuracyFromDistance(o.distance),
          timestamp |-> t,
          source |-> "undefined"]

\* Infinity of JavaScript: above every distance of the model.
Infinity == MaxDistance + 1

\* The distances (meters) from the query point that a vertex of a way takes.
VertexDistances == { 20, 36 }

\* element.geometry: undefined, or an array of at most two vertices, each
\* given by calculateDistance(lat, lon, point.lat, point.lon) * 1000.
Geometries ==
    { [defined |-> FALSE, points |-> << >>], [defined |-> TRUE, points |-> << >>] }
    \cup { [defined |-> TRUE, points |-> << a >>] : a \in VertexDistances }
    \cup { [defined |-> TRUE, points |-> << a, b >>] : a, b \in VertexDistances }

\* An element of data.elements: whether tags.maxspeed is there (and not the
\* empty string), the tag, and the geometry.
Elements ==
    { [tagged |-> g, maxspeed |-> m, geometry |-> geo] :
          g \in BOOLEAN, m \in MaxspeedTags, geo \in Geometries }

\* The loop of calculateDistanceToRoad from vertex i on.
RECURSIVE ClosestVertex(_, _, _)
ClosestVertex(points, i, minDistance) ==
    IF i > Len(points) THEN minDistance
    ELSE ClosestVertex(points, i + 1,
                       IF points[i] < minDistance THEN points[i] ELSE minDistance)

\* calculateDistanceToRoad(lat, lon, geometry), in meters.
calculateDistanceToRoad(points) == ClosestVertex(points, 1, Infinity)

\* bestMatch = null, minDistance = Infinity: the element's index is 0.
NoMatch == [index |-> 0, minDistance |-> Infinity]

\* A loop body that lets a later element at the same distance win.
ConsiderElementLastWins(best, element, i) ==
    IF element.tagged /\ element.geometry.defined
    THEN IF /\ calculateDistanceToRoad(element.geometry.points) <= best.minDistance
            /\ calculateDistanceToRoad(element.geometry.points) < Infinity
         THEN [index |-> i,
               minDistance |-> calculateDistanceToRoad(element.geometry.points)]
         ELSE best
    ELSE best

\* The body of the loop over data.elements (lines 173-182) for element i.
ConsiderElement(best, element, i) ==
    IF element.tagged /\ element.geometry.defined
    THEN IF calculateDistanceToRoad(element.geometry.points) < best.minDistance
         THEN [index |-> i,
               minDistance |-> calculateDistanceToRoad(element.geometry.points)]
         ELSE best
    ELSE best

\* The loop over data.elements from element i on.
RECURSIVE FindBestMatch(_, _, _)
FindBestMatch(elements, i, best) ==
    IF i > Len(elements) THEN best
    ELSE FindBestMatch(elements, i + 1, ConsiderElement(best, elements[i], i))

\* parseOverpassResponse(data, lat, lon) on data.elements (an array, empty
\* or not): the index of bestMatch (0: null) with its distance, and the
\* value returned.
parseOverpassResponse(elements, t) ==
    LET best == FindBestMatch(elements, 1, NoMatch)
    IN [best |-> best,
        data |-> IF best.index = 0 THEN NULL
                 ELSE ParseOverpassResponse(
                          [kind |-> "match", distance |-> best.minDistance,
                           maxspeed |-> elements[best.index].maxspeed], t)]

(***************************************************************************)
(* The primary provider's pure parts (hereSpeedLimitService.ts).           *)
(***************************************************************************)
\* A road name is the set of the markers that its lower-cased text contains.
MotorwayMarkers == {"a1", "a2", "a3", "avtoput_cyr", "autoput"}
TrunkMarkers == {"e70_cyr", "e75_cyr", "m_cyr", "magistral_cyr", "magistral"}
UrbanMarkers == {"bulevar_cyr", "ulica_cyr", "trg_cyr", "bulevar", "ulica", "trg"}

\* A classification that looks for the urban markers first.
getDefaultSpeedLimitUrbanFirst(roadName) ==
    IF roadName \cap UrbanMarkers # {} THEN 50
    ELSE IF roadName \cap MotorwayMarkers # {} THEN 130
    ELSE IF roadName \cap TrunkMarkers # {} THEN 100
    ELSE 80

\* getDefaultSpeedLimit(roadName): the classes are tried in this order.
getDefaultSpeedLimit(roadName) ==
    IF roadName \cap MotorwayMarkers # {} THEN 130
    ELSE IF roadName \cap TrunkMarkers # {} THEN 100
    ELSE IF roadName \cap UrbanMarkers # {} THEN 50
    ELSE 80

\* The road names a reverse-geocode answer carries in this model.
RoadNames == { {"ulica"} }
\* A quota check that lets one request through after the quota is used up.
checkRateLimitInclusive(count, lastReset, t) ==
    LET reset == t - lastReset > ONE_MONTH
        c == IF reset THEN 0 ELSE count
    IN [requestCount |-> c,
        lastResetTime |-> IF reset THEN t ELSE lastReset,
        ok |-> c <= MONTHLY_LIMIT]

\* checkRateLimit: the monthly counter after the check and the check's answer.
checkRateLimit(count, lastReset, t) ==
    LET reset == t - lastReset > ONE_MONTH
        c == IF reset THEN 0 ELSE count
    IN [requestCount |-> c,
        lastResetTime |-> IF reset THEN t ELSE lastReset,
        ok |-> c < MONTHLY_LIMIT]

\* The ceiling of an API class in tenths of a request per second.
RpsTenths(apiType) ==
    CASE apiType = "geocoding" -> 10 * GEOCODING_RPS
      [] apiType = "routing" -> 10 * ROUTING_RPS
      [] apiType = "fleet" -> FLEET_RPS_TENTHS

\* while (queue.length > 0 && queue[0].timestamp < cutoff) queue.shift()
RECURSIVE DropOld(_, _)
DropOld(queue, cutoff) ==
    IF Len(queue) > 0 /\ Head(queue) < cutoff
    THEN DropOld(Tail(queue), cutoff)
    ELSE queue

\* A wait of twice the rest of the window.
WaitTimeTwice(queue, apiType, t) ==
    IF 10 * Len(queue) >= RpsTenths(apiType) /\ RATE_WINDOW - (t - Head(queue)) > 0
    THEN 2 * (RATE_WINDOW - (t - Head(queue)))
    ELSE 0

\* One evaluation of waitForRateLimit at time t: the queue it leaves and the
\* time to sleep before evaluating again (0: the timestamp was recorded).
WaitTime(queue, apiType, t) ==
    IF 10 * Len(queue) >= RpsTenths(apiType) /\ RATE_WINDOW - (t - Head(queue)) > 0
    THEN RATE_WINDOW - (t - Head(queue))
    ELSE 0

waitForRateLimit(queue, apiType, t) ==
    LET q == DropOld(queue, t - RATE_WINDOW)
        w == WaitTime(q, apiType, t)
    IN [queue |-> IF w > 0 THEN q ELSE Append(q, t), wait |-> w]

\* Math.pow(2, retryCount)
RECURSIVE Pow2(_)
Pow2(n) == IF n = 0 THEN 1 ELSE 2 * Pow2(n - 1)

\* min(1000 * 2^retryCount, 10000)
BackoffTime(retryCount) ==
    IF BACKOFF_BASE * Pow2(retryCount) < BACKOFF_CAP
    THEN BACKOFF_BASE * Pow2(retryCount) ELSE BACKOFF_CAP

\* Errors seen by makeRequest's catch: whether the value is a TypeError and
\* whether its message contains "timeout".  A fetch rejected for a network
\* failure is a TypeError.  A fetch aborted by the timeout's
\* controller.abort() is rejected with an AbortError, no TypeError, whose
\* message is the runtime's: it may or may not contain "timeout".
NetworkError == [kind |-> "network", isTypeError |-> TRUE, hasTimeout |-> FALSE]
AbortErrors == { [kind |-> "abort", isTypeError |-> FALSE, hasTimeout |-> b] : b \in BOOLEAN }
HttpError == [kind |-> "http", isTypeError |-> FALSE, hasTimeout |-> FALSE]
\* new Error('Rate limit exceeded - will retry with backoff')
RateLimitError == [kind |-> "ratelimit", isTypeError |-> FALSE, hasTimeout |-> FALSE]
NoError == [kind |-> "none", isTypeError |-> FALSE, hasTimeout |-> FALSE]

\* The retry condition of makeRequest's catch block.
ShouldRetry(retryCount, error) ==
    retryCount < MAX_RETRIES /\ (error.isTypeError \/ error.hasTimeout)

(***************************************************************************)
(* State.                                                                  *)
(***************************************************************************)
VARIABLES
    now,                    \* Date.now()
    ticks,                  \* how often the clock advanced
    cache,                  \* SpeedLimitService.cache: bucket key -> data
    lastKnownSpeedLimit,    \* SpeedLimitService.lastKnownSpeedLimit
    lastSpeedLimitRequest,  \* SpeedLimitService.lastSpeedLimitRequest
    useHereAPI,             \* SpeedLimitService.useHereAPI (hereService set)
    requestCount,           \* HereSpeedLimitService.requestCount
    lastResetTime,          \* HereSpeedLimitService.lastResetTime
    queue,                  \* geocodingQueue, routingQueue, fleetQueue
    calls,                  \* the getSpeedLimit calls in flight, by slot
    ret,                    \* what the last step did to a getSpeedLimit call
    waiters,                \* waitForRateLimit callers asleep: wake times
    recorded,               \* the timestamps those callers recorded
    applied,                \* the last application of a pure method (SpecPure)
    sent,                   \* HTTP requests sent to the primary service
                            \* since requestCount was last set to 0
    resetSince              \* reset() ran after lastSpeedLimitRequest was
                            \* last written

vars == << now, ticks, cache, lastKnownSpeedLimit, lastSpeedLimitRequest,
           useHereAPI, requestCount, lastResetTime, queue, calls, ret,
           waiters, recorded, applied, sent, resetSince >>

\* The state of the direct callers of waitForRateLimit (see SpecRL).
limiterVars == << waiters, recorded >>

Slots == 1 .. MaxInFlight

\* No pure method was applied.
NoApplication == [fn |-> "none", in |-> << >>, out |-> << >>]

\* A location object that getSpeedLimit cannot destructure (null, undefined).
NoLocation == << >>

\* The bucket key of a call that computed none.
NoKey == << >>

\* A slot with no call in it.  A call in flight has its bucket key, the API
\* class and retry count of its running makeRequest, the time its sleep ends
\* (in a fetch: the time the timeout aborts it), how often it invoked the
\* fallback provider and whether the primary provider threw.
Idle == [pc |-> "idle", key |-> NoKey, api |-> "none", retry |-> 0,
         wakeAt |-> 0, osmNet |-> 0, primaryThrew |-> FALSE]

\* What a step did: whether getSpeedLimit was called in it, the bucket key
\* of the call it ran, how the call returned ("none": it did not) and what,
\* the call's fallback invocations and whether its primary provider threw,
\* the HTTP requests the step sent to the primary service, and the error
\* that was caught in it, by kind.
NoEvent == [called |-> FALSE, key |-> NoKey, path |-> "none", value |-> NULL,
            osmNet |-> 0, primaryThrew |-> FALSE, httpSent |-> 0, err |-> "none"]

(***************************************************************************)
(* The code of one call between two suspensions, as a function of the      *)
(* machine M: the fields of both services, the call's own record M.call    *)
(* and the event M.ret.  t is Date.now().                                  *)
(***************************************************************************)
\* The call returns `value` to its caller.
Return(M, path, value) ==
    [M EXCEPT !.ret.key = M.call.key, !.ret.path = path, !.ret.value = value,
              !.ret.osmNet = M.call.osmNet,
              !.ret.primaryThrew = M.call.primaryThrew,
              !.call = Idle]
\* A cache check that takes the throttle interval for the cache duration.
CacheFreshShort(cached, t) == cached # NULL /\ t - cached.timestamp < MIN_REQUEST_INTERVAL

\* cached && (now - cached.timestamp) < CACHE_DURATION
CacheFresh(cached, t) == cached # NULL /\ t - cached.timestamp < CACHE_DURATION
\* A throttle that lets a request through inside the minimum interval.
ThrottledNever(lastReq, t) == t - lastReq < 0

\* now - lastSpeedLimitRequest < MIN_REQUEST_INTERVAL
Throttled(lastReq, t) == t - lastReq < MIN_REQUEST_INTERVAL

\* A sweep that removes nothing.
cleanCacheKeepsAll(c, t) == c

\* cleanCache(): entries older than CACHE_DURATION are deleted.
cleanCache(c, t) ==
    [k \in Keys |->
        IF c[k] # NULL /\ t - c[k].timestamp > CACHE_DURATION THEN NULL ELSE c[k]]

\* Lines 104-110: cache, remember, sweep and return the fresh result.
CacheAndReturn(M, data, t) ==
    Return([M EXCEPT !.cache = cleanCache([M.cache EXCEPT ![M.call.key] = data], t),
                     !.lkg = data],
           "fresh", data)

\* A last-known fallback that serves the value whatever its age.
LastKnownOfAnyAge(lkg, t) ==
    IF lkg # NULL THEN [lkg EXCEPT !.accuracy = "low"] ELSE NULL

\* Lines 112-118: the value returned when no provider produced a result.
LastKnownOrNull(lkg, t) ==
    IF lkg # NULL /\ t - lkg.timestamp < CACHE_DURATION * 2
    THEN [lkg EXCEPT !.accuracy = "low"]
    ELSE NULL

NoFreshData(M, t) ==
    Return(M, IF LastKnownOrNull(M.lkg, t) # NULL THEN "lastknown" ELSE "nodata",
           LastKnownOrNull(M.lkg, t))
\* An outer handler that lets the exception out to the caller.
OuterCatchRethrows(M) == Return(M, "exception", NULL)

\* The outer catch of getSpeedLimit (lines 119-122).
OuterCatch(M) == Return(M, "caught", NULL)

\* The catch around the fallback provider (lines 99-101): log and go on.
FallbackCatch(M, t) == NoFreshData([M EXCEPT !.ret.err = "overpass"], t)

\* A fallback step that takes a result without a numeric limit for no data.
FallbackDoneDropsUnparsed(M, o, t) ==
    IF o.kind = "error" THEN FallbackCatch(M, t)
    ELSE IF /\ ParseOverpassResponse(o, t) # NULL
            /\ ParseOverpassResponse(o, t).speedLimit # NoLimit
         THEN CacheAndReturn(M, [ParseOverpassResponse(o, t) EXCEPT !.source = "osm"], t)
         ELSE NoFreshData(M, t)

\* Lines 94-102 after getSpeedLimitFromOSM settled with outcome o.
FallbackDone(M, o, t) ==
    IF o.kind = "error" THEN FallbackCatch(M, t)
    ELSE IF ParseOverpassResponse(o, t) # NULL
         THEN CacheAndReturn(M, [ParseOverpassResponse(o, t) EXCEPT !.source = "osm"], t)
         ELSE NoFreshData(M, t)

\* Lines 91-94: the fallback provider is invoked; its fetch is sent.
StartFallback(M) ==
    [M EXCEPT !.call.pc = "osm", !.call.osmNet = @ + 1,
              !.call.api = "none", !.call.retry = 0, !.call.wakeAt = 0]

\* A resolver that asks the fallback provider whatever the primary returned.
PrimaryDoneFallsBack(M, data, t) == StartFallback(M)

\* Lines 80-88 after hereService.getSpeedLimit returned `data`.
PrimaryDone(M, data, t) ==
    IF data # NULL
    THEN CacheAndReturn(M, [data EXCEPT !.source = "here"], t)
    ELSE StartFallback(M)
\* A handler of the primary's exception that gives up instead of falling back.
PrimaryCatchGivesUp(M) == Return([M EXCEPT !.call.primaryThrew = TRUE], "nodata", NULL)

\* The catch around the primary provider (lines 85-87): log and go on.
PrimaryCatch(M) == StartFallback([M EXCEPT !.call.primaryThrew = TRUE])

\* A provider that counts every request it ended, with or without a result.
HereReturnCountsAll(M, data, t) == PrimaryDone([M EXCEPT !.requestCount = @ + 1], data, t)

\* HereSpeedLimitService.getSpeedLimit after getSpeedLimitFromRouting
\* returned `data` (lines 53-58).
HereReturn(M, data, t) ==
    IF data # NULL
    THEN PrimaryDone([M EXCEPT !.requestCount = @ + 1], data, t)
    ELSE PrimaryDone(M, NULL, t)

\* A request that is sent without asking the rate limiter.
makeRequestSkipsLimiter(M, apiType, retryCount, t) ==
    [M EXCEPT !.call.pc = "fetch", !.call.api = apiType,
              !.call.retry = retryCount,
              !.call.wakeAt = t + REQUEST_TIMEOUT,
              !.ret.httpSent = @ + 1]

\* One entry into makeRequest(url, apiType, retryCount): waitForRateLimit,
\* then either the sleep it asks for or the fetch (lines 241-254).
makeRequest(M, apiType, retryCount, t) ==
    LET w == waitForRateLimit(M.queue[apiType], apiType, t)
    IN IF w.wait > 0
       THEN [M EXCEPT !.queue[apiType] = w.queue,
                      !.call.pc = "rl_wait", !.call.api = apiType,
                      !.call.retry = retryCount, !.call.wakeAt = t + w.wait]
       ELSE [M EXCEPT !.queue[apiType] = w.queue,
                      !.call.pc = "fetch", !.call.api = apiType,
                      !.call.retry = retryCount,
                      !.call.wakeAt = t + REQUEST_TIMEOUT,
                      !.ret.httpSent = @ + 1]

\* makeRequest returned the parsed body to its caller: getSpeedLimitFromRouting
\* (lines 79-103) for the route request, reverseGeocode (lines 177-187) for
\* the reverse-geocode request.  body.routes: the route list is not empty;
\* body.roadName: the first item's street or title ({} when there is none).
MakeRequestReturn(M, body, t) ==
    IF M.call.api = "routing"
    THEN IF body.routes THEN makeRequest(M, "geocoding", 0, t)
         ELSE HereReturn(M, NULL, t)
    ELSE IF body.roadName # {}
         THEN HereReturn(M, [speedLimit |-> getDefaultSpeedLimit(body.roadName),
                             unit |-> "km/h", accuracy |-> "medium",
                             timestamp |-> t, source |-> "undefined"], t)
         ELSE HereReturn(M, NULL, t)

\* makeRequest threw to its caller: the route request's error reaches the
\* resolver (lines 104-107, 59-62), reverseGeocode turns its own into null
\* (lines 188-191).
MakeRequestThrow(M, t) ==
    IF M.call.api = "routing" THEN PrimaryCatch(M) ELSE HereReturn(M, NULL, t)

\* The catch block of makeRequest (lines 271-282).
MakeRequestCatch(M, error, t) ==
    LET M1 == [M EXCEPT !.ret.err = error.kind]
    IN IF ShouldRetry(M.call.retry, error)
       THEN [M1 EXCEPT !.call.pc = "retry_delay",
                       !.call.wakeAt = t + RETRY_DELAY * (M.call.retry + 1)]
       ELSE MakeRequestThrow(M1, t)

\* HereSpeedLimitService.getSpeedLimit up to its first suspension
\* (lines 41-51).
HereGetSpeedLimit(M, t) ==
    LET chk == checkRateLimit(M.requestCount, M.lastResetTime, t)
        M1 == [M EXCEPT !.requestCount = chk.requestCount,
                        !.lastResetTime = chk.lastResetTime]
    IN IF ~chk.ok THEN PrimaryCatch(M1) ELSE makeRequest(M1, "routing", 0, t)

\* A resolver that stamps the throttle on a throttled return as well.
getSpeedLimitStampsThrottled(M, loc, here, t) ==
    IF loc = NoLocation THEN OuterCatch(M)
    ELSE LET cached == M.cache[CacheKey(loc)]
             M0 == [M EXCEPT !.call.key = CacheKey(loc)]
         IN IF CacheFresh(cached, t)
            THEN Return([M0 EXCEPT !.lkg = cached], "cache", cached)
            ELSE IF Throttled(M.lastReq, t)
            THEN Return([M0 EXCEPT !.lastReq = t], "throttled", M.lkg)
            ELSE IF here
                 THEN HereGetSpeedLimit([M0 EXCEPT !.lastReq = t], t)
                 ELSE StartFallback([M0 EXCEPT !.lastReq = t])

\* A resolver that leaves the throttle timestamp for later and goes to the
\* providers without writing it.
getSpeedLimitStampsLater(M, loc, here, t) ==
    IF loc = NoLocation THEN OuterCatch(M)
    ELSE LET cached == M.cache[CacheKey(loc)]
             M0 == [M EXCEPT !.call.key = CacheKey(loc)]
         IN IF CacheFresh(cached, t)
            THEN Return([M0 EXCEPT !.lkg = cached], "cache", cached)
            ELSE IF Throttled(M.lastReq, t)
            THEN Return(M0, "throttled", M.lkg)
            ELSE IF here
                 THEN HereGetSpeedLimit(M0, t)
                 ELSE StartFallback(M0)

\* SpeedLimitService.getSpeedLimit up to its first suspension (lines 51-94).
getSpeedLimit(M, loc, here, t) ==
    IF loc = NoLocation THEN OuterCatch(M)
    ELSE LET cached == M.cache[CacheKey(loc)]
             M0 == [M EXCEPT !.call.key = CacheKey(loc)]
         IN IF CacheFresh(cached, t)
            THEN Return([M0 EXCEPT !.lkg = cached], "cache", cached)
            ELSE IF Throttled(M.lastReq, t)
            THEN Return(M0, "throttled", M.lkg)
            ELSE IF here
                 THEN HereGetSpeedLimit([M0 EXCEPT !.lastReq = t], t)
                 ELSE StartFallback([M0 EXCEPT !.lastReq = t])

(***************************************************************************)
(* The state machine of the resolver and its primary provider.             *)
(***************************************************************************)
\* The machine as seen by the call in slot s.
Machine(s) ==
    [cache |-> cache, lkg |-> lastKnownSpeedLimit, lastReq |-> lastSpeedLimitRequest,
     requestCount |-> requestCount, lastResetTime |-> lastResetTime,
     queue |-> queue, call |-> calls[s], ret |-> NoEvent]

\* The step of slot s leaves the machine as M.
Becomes(s, M) ==
    /\ cache' = M.cache
    /\ lastKnownSpeedLimit' = M.lkg
    /\ lastSpeedLimitRequest' = M.lastReq
    /\ requestCount' = M.requestCount
    /\ lastResetTime' = M.lastResetTime
    /\ queue' = M.queue
    /\ calls' = [calls EXCEPT ![s] = M.call]
    /\ ret' = M.ret
    /\ sent' = (IF M.lastResetTime # lastResetTime THEN 0 ELSE sent) + M.ret.httpSent
    /\ resetSince' = (resetSince /\ M.lastReq = lastSpeedLimitRequest)
    /\ UNCHANGED << now, ticks, useHereAPI, limiterVars, applied >>

\* The clock starts when a provider client constructed at time 0 can have
\* served MONTHLY_LIMIT - 1 requests, one per MIN_REQUEST_INTERVAL.
StartTime == (MONTHLY_LIMIT - 1) * MIN_REQUEST_INTERVAL

\* By how much the clock advances in one step.
TickSteps == { Ms(7500), CACHE_DURATION }

\* The application has just started.
Init ==
    /\ now = StartTime
    /\ ticks = 0
    /\ cache = [k \in Keys |-> NULL]
    /\ lastKnownSpeedLimit = NULL
    /\ lastSpeedLimitRequest = 0
    /\ useHereAPI = FALSE
    /\ requestCount = 0
    /\ lastResetTime = 0
    /\ queue = [a \in ApiTypes |-> << >>]
    /\ calls = [s \in Slots |-> Idle]
    /\ ret = NoEvent
    /\ waiters = [a \in ApiTypes |-> EmptyBag]
    /\ recorded = [a \in ApiTypes |-> << >>]
    /\ applied = NoApplication
    /\ sent = 0
    /\ resetSince = FALSE

\* Time passes.
Tick(d) ==
    /\ ticks < MaxTicks
    /\ now' = now + d
    /\ ticks' = ticks + 1
    /\ ret' = NoEvent
    /\ UNCHANGED << cache, lastKnownSpeedLimit, lastSpeedLimitRequest, useHereAPI,
                    requestCount, lastResetTime, queue, calls, limiterVars, applied,
                    sent, resetSince >>

\* initializeHereAPI(apiKey): the provider client is constructed.
InitializeHereAPI ==
    /\ ~useHereAPI
    /\ useHereAPI' = TRUE
    /\ requestCount' = 0
    /\ lastResetTime' = now
    /\ sent' = 0
    /\ ret' = NoEvent
    /\ UNCHANGED << now, ticks, cache, lastKnownSpeedLimit, lastSpeedLimitRequest,
                    queue, calls, limiterVars, applied, resetSince >>

\* A reset that clears the throttle timestamp as well.
ResetClearsThrottle ==
    /\ cache' = [k \in Keys |-> NULL]
    /\ lastKnownSpeedLimit' = NULL
    /\ lastSpeedLimitRequest' = 0
    /\ resetSince' = TRUE
    /\ ret' = NoEvent
    /\ UNCHANGED << now, ticks, useHereAPI, requestCount,
                    lastResetTime, queue, calls, limiterVars, applied, sent >>

\* SpeedLimitService.reset()
Reset ==
    /\ cache' = [k \in Keys |-> NULL]
    /\ lastKnownSpeedLimit' = NULL
    /\ resetSince' = TRUE
    /\ ret' = NoEvent
    /\ UNCHANGED << now, ticks, lastSpeedLimitRequest, useHereAPI, requestCount,
                    lastResetTime, queue, calls, limiterVars, applied, sent >>

\* The caller invokes getSpeedLimit(loc); the call takes the first free slot.
Call(s, loc) ==
    /\ calls[s].pc = "idle"
    /\ \A r \in Slots : r < s => calls[r].pc # "idle"
    /\ LET M == getSpeedLimit(Machine(s), loc, useHereAPI, now)
       IN Becomes(s, [M EXCEPT !.ret.called = TRUE,
                               !.ret.key = IF loc = NoLocation THEN NoKey ELSE CacheKey(loc)])

\* The sleep of waitForRateLimit ends; it evaluates again (line 230).
RateLimitWake(s) ==
    /\ calls[s].pc = "rl_wait"
    /\ now >= calls[s].wakeAt
    /\ Becomes(s, makeRequest(Machine(s), calls[s].api, calls[s].retry, now))

\* The bodies a 2xx answer of the primary service can carry.
Bodies(apiType) ==
    IF apiType = "routing"
    THEN { [routes |-> b, roadName |-> {}] : b \in BOOLEAN }
    ELSE { [routes |-> FALSE, roadName |-> r] : r \in RoadNames \cup { {} } }

\* The fetch is answered 2xx with a JSON body.
FetchOk(s, body) ==
    /\ calls[s].pc = "fetch"
    /\ body \in Bodies(calls[s].api)
    /\ Becomes(s, MakeRequestReturn(Machine(s), body, now))

\* The fetch is answered 429: the backoff sleep begins (lines 258-262).
FetchTooManyRequests(s) ==
    /\ calls[s].pc = "fetch"
    /\ Becomes(s, [Machine(s) EXCEPT !.call.pc = "backoff",
                                     !.call.wakeAt = now + BackoffTime(calls[s].retry)])

\* The backoff sleep ends and the error is thrown (line 263).
BackoffWake(s) ==
    /\ calls[s].pc = "backoff"
    /\ now >= calls[s].wakeAt
    /\ Becomes(s, MakeRequestCatch(Machine(s), RateLimitError, now))

\* The fetch fails: rejected by the network, answered with another non-2xx
\* status or a body that is no JSON, or aborted once the timeout has passed.
FetchFails(s, error) ==
    /\ calls[s].pc = "fetch"
    /\ error \in AbortErrors => now >= calls[s].wakeAt
    /\ Becomes(s, MakeRequestCatch(Machine(s), error, now))

\* The delay before a retry ends (lines 277-278).
RetryWake(s) ==
    /\ calls[s].pc = "retry_delay"
    /\ now >= calls[s].wakeAt
    /\ Becomes(s, makeRequest(Machine(s), calls[s].api, calls[s].retry + 1, now))

\* The fallback provider's exchange ends.
OsmResponse(s, o) ==
    /\ calls[s].pc = "osm"
    /\ Becomes(s, FallbackDone(Machine(s), o, now))

\* A step of the call in slot s after its first suspension.  The sleep of
\* waitForRateLimit is never entered here: the resolver starts one provider
\* call per MIN_REQUEST_INTERVAL, far below the ceilings (see SpecRL).
CallStep(s) ==
    \/ \E body \in Bodies("routing") \cup Bodies("geocoding") : FetchOk(s, body)
    \/ FetchTooManyRequests(s)
    \/ BackoffWake(s)
    \/ \E e \in {NetworkError, HttpError} \cup AbortErrors : FetchFails(s, e)
    \/ RetryWake(s)
    \/ \E o \in OsmOutcomes : OsmResponse(s, o)

\* The single consumer of section 5: a call returns before the next begins.
Next ==
    \/ \E d \in TickSteps : Tick(d)
    \/ InitializeHereAPI
    \/ Reset
    \/ \E loc \in Locations \cup {NoLocation} : Call(1, loc)
    \/ CallStep(1)

Spec == Init /\ [][Next]_vars

(***************************************************************************)
(* The resolver with an exhausted monthly quota.                           *)
(***************************************************************************)
\* The application has run since time 0 with the primary provider, resolved
\* MONTHLY_LIMIT - 1 limits through it, the last one MIN_REQUEST_INTERVAL
\* ago, and reset() was called.  Each of these results took a route request
\* and a reverse-geocode request; no request failed.
InitQuota ==
    /\ now = StartTime
    /\ ticks = 0
    /\ cache = [k \in Keys |-> NULL]
    /\ lastKnownSpeedLimit = NULL
    /\ lastSpeedLimitRequest = StartTime - MIN_REQUEST_INTERVAL
    /\ useHereAPI = TRUE
    /\ requestCount = MONTHLY_LIMIT - 1
    /\ lastResetTime = 0
    /\ queue = [a \in ApiTypes |-> << >>]
    /\ calls = [s \in Slots |-> Idle]
    /\ ret = NoEvent
    /\ waiters = [a \in ApiTypes |-> EmptyBag]
    /\ recorded = [a \in ApiTypes |-> << >>]
    /\ applied = NoApplication
    /\ sent = 2 * (MONTHLY_LIMIT - 1)
    /\ resetSince = TRUE

\* The clock advances past the throttle, or to the thirtieth day after the
\* provider client was constructed.
QuotaTickSteps == { MIN_REQUEST_INTERVAL, ONE_MONTH - StartTime }

NextQuota ==
    \/ \E d \in QuotaTickSteps : Tick(d)
    \/ Reset
    \/ \E loc \in Locations : Call(1, loc)
    \/ CallStep(1)

SpecQuota == InitQuota /\ [][NextQuota]_vars

(***************************************************************************)
(* The resolver as the application runs it: initializeHereAPI is never     *)
(* called, and the location listener calls getSpeedLimit on every location *)
(* update without awaiting the call before, so calls overlap.              *)
(***************************************************************************)
NextOverlap ==
    \/ \E d \in TickSteps : Tick(d)
    \/ Reset
    \/ \E s \in Slots : \E loc \in Locations \cup {NoLocation} : Call(s, loc)
    \/ \E s \in Slots : \E o \in OsmOutcomes : OsmResponse(s, o)

SpecOverlap == Init /\ [][NextOverlap]_vars

(***************************************************************************)
(* The resolver with half of the monthly quota counted.                    *)
(***************************************************************************)
\* As InitQuota, but the primary provider resolved MONTHLY_LIMIT / 2 - 1
\* limits so far, each with one route request and one reverse-geocode
\* request and no failed request.
InitHalfQuota ==
    /\ now = StartTime
    /\ ticks = 0
    /\ cache = [k \in Keys |-> NULL]
    /\ lastKnownSpeedLimit = NULL
    /\ lastSpeedLimitRequest = StartTime - MIN_REQUEST_INTERVAL
    /\ useHereAPI = TRUE
    /\ requestCount = MONTHLY_LIMIT \div 2 - 1
    /\ lastResetTime = 0
    /\ queue = [a \in ApiTypes |-> << >>]
    /\ calls = [s \in Slots |-> Idle]
    /\ ret = NoEvent
    /\ waiters = [a \in ApiTypes |-> EmptyBag]
    /\ recorded = [a \in ApiTypes |-> << >>]
    /\ applied = NoApplication
    /\ sent = 2 * (MONTHLY_LIMIT \div 2 - 1)
    /\ resetSince = TRUE

SpecHalfQuota == InitHalfQuota /\ [][NextQuota]_vars

(***************************************************************************)
(* Overlapping calls with the primary provider enabled and the monthly     *)
(* quota nearly used up: the location listener calls getSpeedLimit while   *)
(* an earlier call still awaits the primary service.                       *)
(***************************************************************************)
\* The answer arrives before the timeout aborts the fetch.
FetchOkInTime(s, body) ==
    /\ now < calls[s].wakeAt
    /\ FetchOk(s, body)

NextQuotaOverlap ==
    \/ Tick(Ms(7500))
    \/ \E s \in Slots : \E loc \in Locations : Call(s, loc)
    \/ \E s \in Slots : \E body \in Bodies("routing") \cup Bodies("geocoding") :
          FetchOkInTime(s, body)
    \/ \E s \in Slots : \E o \in OsmOutcomes : OsmResponse(s, o)

SpecQuotaOverlap == InitQuota /\ [][NextQuotaOverlap]_vars

(***************************************************************************)
(* The resolver when the fallback service answers with two tagged ways,    *)
(* tags without digits among them.                                         *)
(***************************************************************************)
\* A maxspeed tag that holds no digit ("none", "signals", "walk").
NoDigits == [num |-> NoLimit, mph |-> FALSE]

\* A way with tag `maxspeed` whose single vertex is `distance` meters away.
Way(maxspeed, distance) ==
    [tagged |-> TRUE, maxspeed |-> maxspeed,
     geometry |-> [defined |-> TRUE, points |-> << distance >>]]

\* The bodies of the fallback service: a way at 20 m and a way at 36 m.
Responses ==
    { << Way(a, 20), Way(b, 36) >> : a, b \in MaxspeedTags \cup { NoDigits } }

\* What the exchange ends in when the body holds `elements`.
OutcomeOf(elements) ==
    LET best == parseOverpassResponse(elements, 0).best
    IN IF best.index = 0
       THEN [kind |-> "empty", distance |-> 0, maxspeed |-> NoDigits]
       ELSE [kind |-> "match", distance |-> best.minDistance,
             maxspeed |-> elements[best.index].maxspeed]

\* The fallback service answers with the body `elements`.
OsmAnswer(s, elements) == OsmResponse(s, OutcomeOf(elements))

NextTags ==
    \/ \E d \in TickSteps : Tick(d)
    \/ InitializeHereAPI
    \/ \E loc \in Locations : Call(1, loc)
    \/ \E body \in Bodies("routing") \cup Bodies("geocoding") : FetchOk(1, body)
    \/ \E elements \in Responses : OsmAnswer(1, elements)

SpecTags == Init /\ [][NextTags]_vars

(***************************************************************************)
(* The rate limiter under direct callers: any number of waitForRateLimit   *)
(* calls of any API class, made at any time and in any interleaving, as    *)
(* the public methods of HereSpeedLimitService allow.                      *)
(***************************************************************************)
\* One evaluation of waitForRateLimit(apiType) by a caller: it goes to sleep
\* until now + waitTime, or records its timestamp and returns.
Evaluate(apiType, asleep) ==
    LET w == waitForRateLimit(queue[apiType], apiType, now)
    IN /\ queue' = [queue EXCEPT ![apiType] = w.queue]
       /\ IF w.wait > 0
          THEN /\ waiters' = [waiters EXCEPT
                                ![apiType] = asleep (+) SetToBag({now + w.wait})]
               /\ UNCHANGED recorded
          ELSE /\ waiters' = [waiters EXCEPT ![apiType] = asleep]
               /\ recorded' = [recorded EXCEPT ![apiType] = Append(@, now)]
       /\ UNCHANGED << now, ticks, cache, lastKnownSpeedLimit, lastSpeedLimitRequest,
                       useHereAPI, requestCount, lastResetTime, calls, ret,
                       applied, sent, resetSince >>

\* The callers of waitForRateLimit so far, of all classes.
Callers ==
    LET n(a) == Len(recorded[a]) + BagCardinality(waiters[a])
    IN n("geocoding") + n("routing") + n("fleet")

\* A caller enters waitForRateLimit(apiType).
Acquire(apiType) ==
    /\ Callers < MaxCallers
    /\ Evaluate(apiType, waiters[apiType])

\* The sleep of a caller ends, at its wake time or later, and the caller
\* evaluates again (line 230).
WaiterWake(apiType, wakeAt) ==
    /\ BagIn(wakeAt, waiters[apiType])
    /\ now >= wakeAt
    /\ Evaluate(apiType, waiters[apiType] (-) SetToBag({wakeAt}))

\* By how much the clock advances in one step of the limiter.
LimiterTickSteps == { Ms(250), Ms(1000) }

NextRL ==
    \/ \E d \in LimiterTickSteps : Tick(d)
    \/ \E a \in ApiTypes : Acquire(a)
    \/ \E a \in ApiTypes : \E w \in BagToSet(waiters[a]) : WaiterWake(a, w)

SpecRL == Init /\ [][NextRL]_vars

\* delay(waitTime) of a sleeping caller: time passes while its timer runs,
\* however often the clock advanced before.
Elapse(d) ==
    /\ \E a \in ApiTypes : \E w \in BagToSet(waiters[a]) : now < w
    /\ now' = now + d
    /\ ret' = NoEvent
    /\ UNCHANGED << ticks, cache, lastKnownSpeedLimit, lastSpeedLimitRequest,
                    useHereAPI, requestCount, lastResetTime, queue, calls,
                    limiterVars, applied, sent, resetSince >>

\* Some sleeping caller whose timer is due evaluates again.
SomeWaiterWakes ==
    \E a \in ApiTypes : \E w \in BagToSet(waiters[a]) : WaiterWake(a, w)

\* Time goes on while a caller sleeps, one unit of the clock at a time.
TimeGoesOn == Elapse(Ms(TimeUnit))

\* The classes whose window the callers of the model can fill: four
\* timestamps fill 'geocoding', one fills 'fleet' ('routing' takes eight).
FillableClasses == { a \in ApiTypes : RpsTenths(a) < 10 * MaxCallers }

\* Between two operations the clock moves by one unit here: the sleeps of the
\* callers, not the pauses between calls, are what this specification is about.
NextRLFair ==
    \/ Tick(Ms(TimeUnit))
    \/ \E a \in FillableClasses : Acquire(a)
    \/ SomeWaiterWakes
    \/ TimeGoesOn

\* The limiter when time advances and the event loop runs every timer that
\* is due.
SpecRLFair ==
    Init /\ [][NextRLFair]_vars /\ WF_vars(TimeGoesOn) /\ WF_vars(SomeWaiterWakes)

(***************************************************************************)
(* The pure methods, applied to inputs drawn from bounded sets.            *)
(***************************************************************************)
\* A pure method fn is applied to in and yields out (one application in a
\* behaviour: the methods keep no state).
Apply(fn, in, out) ==
    /\ applied = NoApplication
    /\ applied' = [fn |-> fn, in |-> in, out |-> out]
    /\ UNCHANGED << now, ticks, cache, lastKnownSpeedLimit, lastSpeedLimitRequest,
                    useHereAPI, requestCount, lastResetTime, queue, calls, ret,
                    limiterVars, sent, resetSince >>

\* Latitudes around the equator and longitudes around 21 degrees east, in
\* units of 0.0001 degree.
Latitudes == (0 - MaxCoord) .. MaxCoord
Longitudes == { 210000, 210004, 210006 }

\* The cache key of getSpeedLimit (line 57) is computed for two locations.
ApplyCacheKey(a, b) ==
    Apply("cacheKey", << a, b >>, << CacheKey(a), CacheKey(b) >>)

\* The arguments of isSpeedingAlert: null, or a speed in whole km/h.
SpeedArgs ==
    { [isNull |-> TRUE, v |-> 0] } \cup { [isNull |-> FALSE, v |-> n] : n \in 0 .. MaxSpeed }

\* !x of JavaScript for such an argument: null and 0 are falsy.
Falsy(x) == x.isNull \/ x.v = 0

\* An alert that also fires at the tolerance itself.
isSpeedingAlertInclusive(currentSpeedKmh, speedLimit) ==
    IF Falsy(currentSpeedKmh) \/ Falsy(speedLimit) THEN FALSE
    ELSE 20 * currentSpeedKmh.v >= 20 * speedLimit.v + speedLimit.v

\* isSpeedingAlert: tolerance = speedLimit * 0.05, compared in units of
\* 1/20 km/h, where the tolerance is speedLimit.v.
isSpeedingAlert(currentSpeedKmh, speedLimit) ==
    IF Falsy(currentSpeedKmh) \/ Falsy(speedLimit) THEN FALSE
    ELSE 20 * currentSpeedKmh.v > 20 * speedLimit.v + speedLimit.v

ApplyIsSpeedingAlert(c, l) ==
    Apply("isSpeedingAlert", << c, l >>, isSpeedingAlert(c, l))

\* parseOverpassResponse derives the accuracy from the distance (in whole
\* meters) of the way it selected (lines 192-195).
ApplyAccuracy(d) == Apply("accuracy", << d >>, AccuracyFromDistance(d))

\* Road names for getDefaultSpeedLimit: every combination of these markers,
\* two of each class.
RoadNameArgs == SUBSET {"autoput", "a1", "magistral", "m_cyr", "ulica", "trg"}

ApplyGetDefaultSpeedLimit(roadName) ==
    Apply("getDefaultSpeedLimit", << roadName >>, getDefaultSpeedLimit(roadName))

\* The arrays data.elements of at most MaxElements elements.
ElementLists == UNION { [1 .. n -> Elements] : n \in 0 .. MaxElements }

ApplyParseOverpassResponse(elements) ==
    Apply("parseOverpassResponse", << elements >>, parseOverpassResponse(elements, now))

NextPure ==
    /\ applied = NoApplication
    /\ \/ \E a, b \in Latitudes \X Longitudes : ApplyCacheKey(a, b)
       \/ \E c, l \in SpeedArgs : ApplyIsSpeedingAlert(c, l)
       \/ \E d \in 0 .. MaxDistance : ApplyAccuracy(d)
       \/ \E r \in RoadNameArgs : ApplyGetDefaultSpeedLimit(r)
       \/ \E e \in ElementLists : ApplyParseOverpassResponse(e)

SpecPure == Init /\ [][NextPure]_vars

(***************************************************************************)
(* Properties.  Durations as the specification words them.                 *)
(***************************************************************************)
TTL == Ms(5 * 60 * 1000)
ThrottleWindow == Ms(15000)
ThirtyDays == Ms(24 * 60 * 60) * 1000 * 30

\* The cache holds an entry for key k that is younger than the TTL.
FreshEntry(k) == cache[k] # NULL /\ now - cache[k].timestamp < TTL

\* reset() ran in this step.
ResetStep == cache' = [k \in Keys |-> NULL] /\ lastKnownSpeedLimit' = NULL

\* The call in slot s, in flight for key k, returns in this step.
Lands(s, k) == calls[s].pc # "idle" /\ calls[s].key = k /\ calls'[s].pc = "idle"

\* A getSpeedLimit call for a bucket that holds a fresh entry returns at
\* once with exactly that entry and sends no request to the primary (HERE)
\* or the fallback (OSM) service.
CacheHitServed ==
    (ret'.called /\ ret'.key \in Keys /\ FreshEntry(ret'.key))
        => /\ ret'.path # "none"
           /\ ret'.value = cache[ret'.key]
           /\ ret'.httpSent = 0 /\ ret'.osmNet = 0
           /\ calls' = calls /\ queue' = queue /\ cache' = cache

\* C1 (as amended): a getSpeedLimit call for a location whose bucket holds
\* an entry younger than the 5-minute TTL returns at once with exactly the
\* entry cached at that time and sends no request to the primary or the
\* fallback service; a fresh entry is replaced only by the result of a
\* resolution for the same bucket that was in flight when the entry was
\* written (overlapping calls), and removed only by reset().
C1_CacheHitAmended ==
    [][ /\ CacheHitServed
        /\ \A k \in Keys :
             FreshEntry(k) => \/ cache'[k] = cache[k]
                              \/ ResetStep
                              \/ \E s \in Slots : Lands(s, k)
      ]_vars

\* A call is served the fresh entry while an earlier resolution for the
\* same bucket is still in flight.
C1_Witness ==
    /\ ret.called /\ ret.path = "cache"
    /\ ret.value = cache[ret.key]
    /\ now > ret.value.timestamp
    /\ \E s \in Slots : calls[s].pc = "osm" /\ calls[s].key = ret.key

\* C1 as stated: once a result is cached for a bucket, every later call
\* within the TTL returns the identical object: the entry stays as it is
\* (until reset() clears it) and calls are served it without a request.
C1_Original ==
    [][ /\ CacheHitServed
        /\ \A k \in Keys : FreshEntry(k) => (cache'[k] = cache[k] \/ ResetStep)
      ]_vars

\* A value of type SpeedLimitData.
IsSpeedLimitData(v) ==
    /\ v.unit \in {"km/h", "mph"}
    /\ v.accuracy \in {"high", "medium", "low"}
    /\ v.source \in {"here", "osm", "default"}
    /\ v.timestamp > 0

\* C2: getSpeedLimit never fails with an exception: whatever the input and
\* whatever the providers do (quota, network or HTTP error of the primary,
\* error of the fallback, unusable bodies), the call returns a
\* SpeedLimitData value or null.
C2_NeverThrows ==
    /\ ret.path # "exception"
    /\ ret.path # "none" => (ret.value = NULL \/ IsSpeedLimitData(ret.value))

\* Both providers threw and the call returned null.
C2_Witness ==
    /\ ret.path = "nodata" /\ ret.primaryThrew /\ ret.err = "overpass"
    /\ ret.value = NULL

\* C3 (as amended): when the primary provider threw, the resolution invoked
\* the fallback provider exactly once; a result the fallback resolved
\* carries source 'osm', and the only other non-null result is the copy of
\* last-known-good with accuracy 'low', which keeps the source it had.
C3_FallbackOnceAfterThrow ==
    (ret.primaryThrew /\ ret.path # "none")
        => /\ ret.osmNet = 1
           /\ ret.path \in {"fresh", "lastknown", "nodata"}
           /\ ret.path = "fresh" => ret.value.source = "osm"
           /\ ret.path = "lastknown"
                  => ret.value = [lastKnownSpeedLimit EXCEPT !.accuracy = "low"]
           /\ ret.path = "nodata" => ret.value = NULL

C3_Witness ==
    ret.primaryThrew /\ ret.path = "fresh" /\ ret.value.source = "osm"

\* C3 as stated: every non-null result of a resolution whose primary
\* provider threw carries source 'osm'.
C3_Original ==
    (ret.primaryThrew /\ ret.path # "none")
        => /\ ret.osmNet = 1
           /\ ret.value # NULL => ret.value.source = "osm"

\* C4: a getSpeedLimit call made less than 15 s after the last resolution
\* that reached the provider stage, for a bucket without a fresh entry,
\* returns at once the stored last-known-good value unchanged (null when
\* there is none) and sends no request.
C4_ThrottledReturnsLastKnown ==
    [][ (/\ ret'.called /\ ret'.key \in Keys
         /\ ~FreshEntry(ret'.key)
         /\ lastSpeedLimitRequest > 0
         /\ now - lastSpeedLimitRequest < ThrottleWindow)
        => /\ ret'.path # "none"
           /\ ret'.value = lastKnownSpeedLimit
           /\ lastKnownSpeedLimit' = lastKnownSpeedLimit
           /\ lastSpeedLimitRequest' = lastSpeedLimitRequest
           /\ ret'.httpSent = 0 /\ ret'.osmNet = 0
           /\ calls' = calls /\ queue' = queue /\ cache' = cache
      ]_vars

\* A throttled call for another bucket than the one last-known-good was
\* resolved for is served last-known-good, accuracy as stored.
C4_Witness ==
    /\ ret.called /\ ret.path = "throttled"
    /\ ret.value # NULL /\ ret.value = lastKnownSpeedLimit
    /\ ret.value.accuracy # "low"
    /\ cache[ret.key] # ret.value

\* C5 as stated: a returned last-known-good result (cache hit, throttled
\* return or no-fresh-data) is younger than 2 x TTL.
C5_Original ==
    (ret.path \in {"cache", "throttled", "lastknown"} /\ ret.value # NULL)
        => now - ret.value.timestamp < 2 * TTL

\* C6 as stated: a returned result that was resolved a TTL or longer ago has
\* accuracy 'low'.
C6_Original ==
    (ret.path # "none" /\ ret.value # NULL /\ now - ret.value.timestamp >= TTL)
        => ret.value.accuracy = "low"

\* C8 as stated: after the backoff of a 429 answer the request is issued
\* again while retryCount is below maxRetries.
C8_Original ==
    [][ \A s \in Slots :
          (calls[s].pc = "backoff" /\ calls[s].retry < MAX_RETRIES
           /\ calls'[s] # calls[s])
          => /\ calls'[s].pc = "fetch"
             /\ calls'[s].api = calls[s].api
             /\ calls'[s].retry = calls[s].retry + 1
      ]_vars

\* C9 as stated: a fetch that fails with a network error or is aborted by
\* the timeout is retried after 1000 * (retryCount + 1) ms while retryCount
\* is below maxRetries, there are at most maxRetries + 1 attempts, and the
\* error of the last attempt leaves makeRequest.
C9_Original ==
    [][ \A s \in Slots :
          /\ calls'[s].retry <= MAX_RETRIES
          /\ (calls[s].pc = "fetch" /\ calls'[s] # calls[s]
              /\ ret'.err \in {"network", "abort"})
             => IF calls[s].retry < MAX_RETRIES
                THEN /\ calls'[s].pc = "retry_delay"
                     /\ calls'[s].retry = calls[s].retry
                     /\ calls'[s].wakeAt = now + Ms(1000) * (calls[s].retry + 1)
                ELSE calls'[s].pc \notin {"retry_delay", "fetch"}
                     \/ calls'[s].api # calls[s].api
      ]_vars

InWindow(a, t) ==
    { j \in 1 .. Len(recorded[a]) :
          recorded[a][j] >= t /\ recorded[a][j] <= t + Ms(1000) }

\* C7 as stated: in no window of 1000 ms, its boundary instants included,
\* are more timestamps recorded for a class than its ceiling: 4 for
\* geocoding, 8 for routing.
C7_Original ==
    /\ \A i \in 1 .. Len(recorded["geocoding"]) :
           Cardinality(InWindow("geocoding", recorded["geocoding"][i])) <= 4
    /\ \A i \in 1 .. Len(recorded["routing"]) :
           Cardinality(InWindow("routing", recorded["routing"][i])) <= 8

\* The absolute value of a coordinate.
Abs(x) == IF x < 0 THEN 0 - x ELSE x

\* x and y are written with the same sign and the same digits up to the
\* third decimal place.
SameDigits3(x, y) == (x < 0 <=> y < 0) /\ Abs(x) \div 10 = Abs(y) \div 10

\* x and y have the same sign and the same nearest multiple of 0.001
\* (a magnitude halfway between two multiples belongs to the upper one).
SameRounding3(x, y) ==
    /\ x < 0 <=> y < 0
    /\ \E k \in 0 .. (Abs(x) \div 10 + 1) :
          /\ 10 * k - 5 <= Abs(x) /\ Abs(x) < 10 * k + 5
          /\ 10 * k - 5 <= Abs(y) /\ Abs(y) < 10 * k + 5

\* C11 (as amended): two locations get the same bucket key exactly when
\* their latitudes, and their longitudes, have the same sign and round to
\* the same multiple of 0.001 degree; coordinates that differ only beyond
\* the third decimal place get the same key only when they lie on the same
\* side of the rounding point (digit 5 in the fourth decimal place).
C11_KeyIsRounding ==
    applied.fn = "cacheKey"
        => LET a == applied.in[1]
               b == applied.in[2]
           IN (applied.out[1] = applied.out[2])
                  <=> (SameRounding3(a[1], b[1]) /\ SameRounding3(a[2], b[2]))

\* Two different locations that differ beyond the third decimal place only
\* and share the key.
C11_Witness ==
    /\ applied.fn = "cacheKey"
    /\ applied.in[1] # applied.in[2]
    /\ SameDigits3(applied.in[1][1], applied.in[2][1])
    /\ SameDigits3(applied.in[1][2], applied.in[2][2])
    /\ applied.out[1] = applied.out[2]

\* C11 as stated: two locations whose coordinates differ only in digits
\* beyond the third decimal place get the same bucket key.
C11_Original ==
    (/\ applied.fn = "cacheKey"
     /\ SameDigits3(applied.in[1][1], applied.in[2][1])
     /\ SameDigits3(applied.in[1][2], applied.in[2][2]))
        => applied.out[1] = applied.out[2]

\* C12: isSpeedingAlert(currentSpeedKmh, limitKmh) is true exactly when
\* both arguments are neither null nor 0 and currentSpeedKmh > limitKmh x
\* 1.05 (compared in hundredths of km/h); so it is false for 63 against 60
\* and true for 64 against 60.
C12_SpeedingAlert ==
    applied.fn = "isSpeedingAlert"
        => LET c == applied.in[1]
               l == applied.in[2]
           IN /\ applied.out
                    <=> (/\ ~c.isNull /\ c.v # 0
                         /\ ~l.isNull /\ l.v # 0
                         /\ 100 * c.v > 105 * l.v)
              /\ (~c.isNull /\ ~l.isNull /\ c.v = 63 /\ l.v = 60) => ~applied.out
              /\ (~c.isNull /\ ~l.isNull /\ c.v = 64 /\ l.v = 60) => applied.out

\* The alert is asked for the speed at the tolerance itself.
C12_Witness ==
    /\ applied.fn = "isSpeedingAlert"
    /\ ~applied.in[1].isNull /\ applied.in[1].v = 63
    /\ ~applied.in[2].isNull /\ applied.in[2].v = 60
    /\ ~applied.out

\* The values the resolver holds or has just returned.
Held == ({ cache[k] : k \in Keys } \cup { lastKnownSpeedLimit, ret.value }) \ { NULL }

\* C13: every SpeedLimitData value that the resolver returns, caches or
\* keeps as last-known-good has unit 'km/h'; a value of the fallback
\* provider, whose maxspeed tag here is "50 mph", holds 80 = round(50 x
\* 1.60934) and never the raw 50.
C13_UnitIsKmh ==
    \A v \in Held :
        /\ v.unit = "km/h"
        /\ v.source = "osm" => (v.speedLimit = 80 /\ v.speedLimit # 50)

\* A fallback result parsed from "50 mph" was returned and is cached.
C13_Witness ==
    /\ ret.path = "fresh" /\ ret.value.source = "osm"
    /\ ret.value.speedLimit = 80 /\ ret.value.unit = "km/h"
    /\ cache[ret.key] = ret.value /\ lastKnownSpeedLimit = ret.value

\* C14: parseOverpassResponse maps the distance d (meters) of the selected
\* way to 'high' for d <= 20, to 'medium' for 20 < d <= 35 and to 'low' for
\* d > 35; so 15 and 20 give 'high', 25 and 35 give 'medium', 40 gives 'low'.
C14_DistanceToAccuracy ==
    applied.fn = "accuracy"
        => LET d == applied.in[1]
           IN /\ d \in 0 .. 20 => applied.out = "high"
              /\ d \in 21 .. 35 => applied.out = "medium"
              /\ d \in 36 .. MaxDistance => applied.out = "low"
              /\ d \in {15, 20} => applied.out = "high"
              /\ d \in {25, 35} => applied.out = "medium"
              /\ d = 40 => applied.out = "low"

\* The accuracy is derived at the boundary of 35 m.
C14_Witness ==
    applied.fn = "accuracy" /\ applied.in[1] = 35 /\ applied.out = "medium"

\* C15 (as amended): a road name containing "autoput" yields 130; a name
\* containing "ulica" yields 50 only when it contains no motorway and no
\* trunk marker, 100 when it contains a trunk marker and no motorway marker,
\* and 130 when it contains a motorway marker; a name matching no marker
\* yields 80.
C15_ClassesInOrder ==
    applied.fn = "getDefaultSpeedLimit"
        => LET name == applied.in[1]
               motorway == name \cap {"autoput", "a1"} # {}
               trunk == name \cap {"magistral", "m_cyr"} # {}
           IN /\ "autoput" \in name => applied.out = 130
              /\ ("ulica" \in name /\ ~motorway /\ ~trunk) => applied.out = 50
              /\ ("ulica" \in name /\ ~motorway /\ trunk) => applied.out = 100
              /\ ("ulica" \in name /\ motorway) => applied.out = 130
              /\ name = {} => applied.out = 80

\* A name with an urban and a trunk marker (such as "Magistralna ulica") is
\* classified.
C15_Witness ==
    /\ applied.fn = "getDefaultSpeedLimit"
    /\ applied.in[1] = {"ulica", "magistral"}
    /\ applied.out = 100

\* C15 as stated: every name containing "autoput" yields 130, every name
\* containing "ulica" yields 50, every name matching no marker yields 80.
C15_Original ==
    applied.fn = "getDefaultSpeedLimit"
        => /\ "autoput" \in applied.in[1] => applied.out = 130
           /\ "ulica" \in applied.in[1] => applied.out = 50
           /\ applied.in[1] = {} => applied.out = 80

\* The call in slot s invokes the fallback provider in this step.
FallbackBegins(s) == calls'[s].pc = "osm" /\ calls'[s].osmNet = calls[s].osmNet + 1

\* The primary provider returns a non-null result in this step: the one
\* occasion on which it counts a request (incrementRequestCount).
PrimaryYields == requestCount' = requestCount + 1

\* C16: in one resolution the fallback provider is invoked only after the
\* primary provider was skipped (not enabled), threw, or ended its HTTP
\* exchange without a result; when the primary returns a non-null result no
\* fallback is invoked and the call returns that result with source 'here';
\* and while the primary is not initialized no request goes to it.
C16_ProviderOrder ==
    [][ /\ PrimaryYields
            => /\ ret'.path = "fresh" /\ ret'.value.source = "here"
               /\ ret'.osmNet = 0
               /\ \A s \in Slots : ~FallbackBegins(s)
        /\ \A s \in Slots :
             FallbackBegins(s)
                => /\ ~PrimaryYields
                   /\ useHereAPI => \/ calls'[s].primaryThrew
                                    \/ calls[s].pc \in {"fetch", "backoff"}
                   /\ calls[s].pc = "idle" => (~useHereAPI \/ calls'[s].primaryThrew)
        /\ ~useHereAPI
            => /\ ret'.httpSent = 0 /\ queue' = queue
               /\ \A s \in Slots : calls'[s].pc \in {"idle", "osm"}
      ]_vars

\* The primary provider's result was returned without asking the fallback.
C16_Witness ==
    /\ useHereAPI
    /\ ret.path = "fresh" /\ ret.value.source = "here" /\ ret.osmNet = 0
    /\ cache[ret.key] = ret.value

\* C17: a call that returns a provider's fresh result has stored it under
\* its bucket key and as last-known-good and has swept the cache: after the
\* write no entry is older than the 5-minute TTL, and the other entries are
\* as before or removed; the cache changes in no other step, except by
\* reset().
C17_CacheAndSweep ==
    [][ /\ ret'.path = "fresh"
            => /\ ret'.value # NULL
               /\ cache'[ret'.key] = ret'.value
               /\ lastKnownSpeedLimit' = ret'.value
               /\ \A k \in Keys :
                    /\ cache'[k] # NULL => now' - cache'[k].timestamp <= TTL
                    /\ k # ret'.key => cache'[k] \in { cache[k], NULL }
                    /\ (k # ret'.key /\ cache[k] # NULL /\ cache'[k] = NULL)
                           => now' - cache[k].timestamp > TTL
        /\ cache' # cache => (ret'.path = "fresh" \/ ResetStep)
      ]_vars

\* A fresh result was written and the sweep kept the entry of another
\* bucket that is exactly TTL old.
C17_Witness ==
    /\ ret.path = "fresh" /\ cache[ret.key] = ret.value
    /\ lastKnownSpeedLimit = ret.value
    /\ \E k \in Keys : /\ k # ret.key /\ cache[k] # NULL
                       /\ now - cache[k].timestamp = TTL

\* A call that was awaiting a provider returns in this step without a
\* fresh result.
ReturnsWithoutFreshData ==
    /\ ret'.path \notin {"none", "fresh"}
    /\ \E s \in Slots : calls[s].pc # "idle" /\ calls'[s].pc = "idle"

C19_ThrottleTimestamp ==
    [][ IF /\ ret'.called /\ ret'.key \in Keys
           /\ ~FreshEntry(ret'.key)
           /\ ~(now - lastSpeedLimitRequest < ThrottleWindow)
        THEN /\ lastSpeedLimitRequest' = now
             /\ ret'.path = "none"
             /\ \E s \in Slots : calls[s].pc = "idle" /\ calls'[s].pc # "idle"
        ELSE lastSpeedLimitRequest' = lastSpeedLimitRequest
      ]_vars

\* A resolution ended without any result some time after its call: the
\* timestamp is still the time of the call.
C19_Witness ==
    /\ ret.path = "nodata"
    /\ lastSpeedLimitRequest > 0 /\ lastSpeedLimitRequest < now

\* C20 as stated, for the earlier results that are still in the cache (they
\* were resolved successfully and reset() has not cleared them): the
\* timestamp of last-known-good is not older than the timestamp of any of
\* them.
C20_Original ==
    \A k \in Keys :
        cache[k] # NULL
            => /\ lastKnownSpeedLimit # NULL
               /\ lastKnownSpeedLimit.timestamp >= cache[k].timestamp


\* The element carries tags.maxspeed and a geometry with a vertex.
Qualifies(element) ==
    element.tagged /\ element.geometry.defined /\ Len(element.geometry.points) > 0

\* The distance of the element's closest vertex.
Closest(element) ==
    CHOOSE d \in { element.geometry.points[j] : j \in 1 .. Len(element.geometry.points) } :
        \A j \in 1 .. Len(element.geometry.points) : d <= element.geometry.points[j]

\* C21: among the elements that carry tags.maxspeed and a geometry,
\* parseOverpassResponse selects the one whose closest vertex is at the
\* minimum distance, the first in response order among those at that
\* distance; it returns null when no element qualifies (empty list, no
\* maxspeed tag, no geometry or no geometry vertex).
C21_ClosestFirst ==
    applied.fn = "parseOverpassResponse"
        => LET elements == applied.in[1]
               Q == { i \in 1 .. Len(elements) : Qualifies(elements[i]) }
               best == applied.out.best.index
           IN IF Q = {}
              THEN best = 0 /\ applied.out.data = NULL
              ELSE /\ best \in Q
                   /\ applied.out.data # NULL
                   /\ applied.out.best.minDistance = Closest(elements[best])
                   /\ \A j \in Q :
                        /\ Closest(elements[best]) <= Closest(elements[j])
                        /\ Closest(elements[j]) = Closest(elements[best]) => best <= j

\* The second of three elements is selected: the first has a geometry
\* without a vertex, the third is as close as the second.
C21_Witness ==
    /\ applied.fn = "parseOverpassResponse"
    /\ Len(applied.in[1]) = 3
    /\ applied.in[1][1].tagged /\ applied.in[1][1].geometry.defined
    /\ ~Qualifies(applied.in[1][1])
    /\ Qualifies(applied.in[1][2]) /\ Qualifies(applied.in[1][3])
    /\ Closest(applied.in[1][2]) = Closest(applied.in[1][3])
    /\ applied.out.best.index = 2

\* C22 as stated: any two consecutive timestamps recorded for the fleet
\* class are at least 1250 ms apart.
C22_Original ==
    \A i \in 1 .. Len(recorded["fleet"]) - 1 :
        recorded["fleet"][i + 1] - recorded["fleet"][i] >= Ms(1250)

\* A caller of class a goes to sleep in this step, until wake time w.
FallsAsleep(a, w) == CopiesIn(w, waiters'[a]) > CopiesIn(w, waiters[a])

\* C23: every waitForRateLimit call eventually records its timestamp and
\* returns when time advances and the number of callers is finite; a caller
\* that finds the window at capacity sleeps for a time that is strictly
\* positive and at most 1000 ms (it never spins) and a caller leaves the
\* sleepers only by recording its timestamp.
C23_EveryCallReturns ==
    /\ [][ \A a \in ApiTypes :
             /\ \A w \in BagToSet(waiters'[a]) :
                  FallsAsleep(a, w) => (now < w /\ w <= now + Ms(1000))
             /\ BagCardinality(waiters'[a]) < BagCardinality(waiters[a])
                  => Len(recorded'[a]) = Len(recorded[a]) + 1
         ]_vars
    /\ \A a \in ApiTypes : (waiters[a] # EmptyBag) ~> (waiters[a] = EmptyBag)

\* A fleet caller sleeps although the timestamp that was in the window when
\* it entered has left it: another caller recorded in between, and the
\* sleeper had to wait a second time.
C23_Witness ==
    /\ Len(recorded["fleet"]) = 2
    /\ recorded["fleet"][2] = recorded["fleet"][1] + Ms(1000)
    /\ \E w \in BagToSet(waiters["fleet"]) :
          /\ now < w /\ w = recorded["fleet"][2] + Ms(1000)
          /\ now = recorded["fleet"][2] + Ms(250)

SendsRequest(s) == calls'[s].pc = "fetch" /\ calls'[s] # calls[s]

\* C25: every HTTP request sent to the primary service, first attempts and
\* retries alike, is sent in the step in which waitForRateLimit completed
\* for the request's own API class (it recorded the current time in that
\* class's window, and in no other): 'routing' for the route request,
\* 'geocoding' for the reverse-geocode request; the first reverse-geocode
\* request follows a route request that was answered with at least one
\* route, and an answer without routes is followed by no request.
C25_LimiterBeforeRequest ==
    [][ /\ \A s \in Slots :
             SendsRequest(s)
                => LET api == calls'[s].api
                   IN /\ ret'.httpSent = 1
                      /\ api \in {"routing", "geocoding"}
                      /\ queue'[api] = Append(DropOld(queue[api], now - Ms(1000)), now)
                      /\ \A a \in ApiTypes \ {api} : queue'[a] = queue[a]
                      /\ api = "routing"
                            => \/ calls[s].pc = "idle"
                               \/ /\ calls[s].pc = "retry_delay"
                                  /\ calls[s].api = "routing"
                                  /\ calls'[s].retry = calls[s].retry + 1
                      /\ api = "geocoding"
                            => \/ calls[s].pc = "fetch" /\ calls[s].api = "routing"
                               \/ /\ calls[s].pc = "retry_delay"
                                  /\ calls[s].api = "geocoding"
                                  /\ calls'[s].retry = calls[s].retry + 1
        /\ (ret'.httpSent > 0 \/ queue' # queue) => \E s \in Slots : SendsRequest(s)
        /\ \A s \in Slots :
             (calls[s].api = "routing" /\ FetchOk(s, [routes |-> FALSE, roadName |-> {}]))
                => ~SendsRequest(s) /\ ret'.httpSent = 0
      ]_vars

\* A reverse-geocode request is retried: its class's window holds the
\* timestamp of the retry, the routing window still that of the route
\* request.
C25_Witness ==
    /\ calls[1].pc = "fetch" /\ calls[1].api = "geocoding" /\ calls[1].retry = 1
    /\ ret.httpSent = 1
    /\ queue["geocoding"] = << now >>
    /\ Len(queue["routing"]) = 1 /\ queue["routing"][1] < now

\* The call in slot s reaches the provider stage in this step.
ReachesProviders(s) == calls[s].pc = "idle" /\ calls'[s].pc # "idle"

\* C26: also when getSpeedLimit calls overlap, two resolutions that reach
\* the provider stage are at least 15 s apart: the throttle timestamp is the
\* time of the last one, written in the step of the call itself, before it
\* first suspends; a call for a valid location made less than 15 s after it
\* returns at once the current last-known-good value (null when there is
\* none), without network I/O, whatever calls are in flight.
C26_OneResolutionPerInterval ==
    [][ /\ \A s \in Slots :
             ReachesProviders(s)
                => /\ now - lastSpeedLimitRequest >= ThrottleWindow
                   /\ lastSpeedLimitRequest' = now
        /\ lastSpeedLimitRequest' # lastSpeedLimitRequest
              => \E s \in Slots : ReachesProviders(s)
        /\ (/\ ret'.called /\ ret'.key \in Keys
            /\ now - lastSpeedLimitRequest < ThrottleWindow)
              => /\ ret'.path \in {"cache", "throttled"}
                 /\ ret'.value = lastKnownSpeedLimit'
                 /\ ret'.path = "throttled" => lastKnownSpeedLimit' = lastKnownSpeedLimit
                 /\ ret'.httpSent = 0 /\ ret'.osmNet = 0
                 /\ calls' = calls /\ queue' = queue
      ]_vars

\* A second call started while the first one awaits the fallback provider:
\* it was throttled and returned null, there being no last-known-good yet.
C26_Witness ==
    /\ ret.called /\ ret.path = "throttled" /\ ret.value = NULL
    /\ lastKnownSpeedLimit = NULL
    /\ calls[1].pc = "osm" /\ calls[2].pc = "idle"
    /\ now - lastSpeedLimitRequest < ThrottleWindow

\* C27 as stated: requestCount never exceeds MONTHLY_LIMIT (25000), also
\* when several calls of the primary provider are in flight at once.
C27_Original == requestCount <= 25000

\* C28 as stated: the number of HTTP requests sent to the primary service
\* since the counter was last reset never exceeds the monthly quota of
\* 25000.
C28_Original == sent <= 25000

\* A getSpeedLimit call for a valid location is made in this step, after
\* reset() and less than 15 s after the last resolution reached the
\* provider stage.
CallAfterReset ==
    /\ ret'.called /\ ret'.key \in Keys
    /\ resetSince
    /\ now - lastSpeedLimitRequest < ThrottleWindow

\* The call of this step returned null at once and without network I/O.
ReturnsNullAtOnce ==
    /\ ret'.path = "throttled" /\ ret'.value = NULL
    /\ ret'.httpSent = 0 /\ ret'.osmNet = 0
    /\ calls' = calls /\ queue' = queue
    /\ cache' = cache /\ lastKnownSpeedLimit' = lastKnownSpeedLimit

\* The effect of reset() on the resolver and on everything around it.
ResetFrame ==
    Reset => /\ cache' = [k \in Keys |-> NULL]
             /\ lastKnownSpeedLimit' = NULL
             /\ lastSpeedLimitRequest' = lastSpeedLimitRequest
             /\ useHereAPI' = useHereAPI
             /\ requestCount' = requestCount /\ lastResetTime' = lastResetTime
             /\ queue' = queue /\ calls' = calls

\* C29 (as amended): reset() empties the cache and sets last-known-good to
\* null and leaves the throttle timestamp, the primary provider's
\* configuration and the calls in flight as they are; so a getSpeedLimit
\* call made after reset() and less than 15 s after the last resolution
\* reached the provider stage returns null without network I/O as long as
\* no resolution has stored a result since reset(): a resolution that was
\* in flight when reset() ran still stores its result afterwards.
C29_ResetKeepsThrottle ==
    [][ /\ ResetFrame
        /\ (/\ CallAfterReset
            /\ cache = [k \in Keys |-> NULL]
            /\ lastKnownSpeedLimit = NULL)
              => ReturnsNullAtOnce
        /\ (CallAfterReset /\ ~ReturnsNullAtOnce)
              => /\ ret'.path \in {"cache", "throttled"}
                 /\ ret'.value = lastKnownSpeedLimit'
                 /\ ret'.value # NULL
                 /\ ret'.value.timestamp >= lastSpeedLimitRequest
                 /\ ret'.httpSent = 0 /\ ret'.osmNet = 0
      ]_vars

\* The primary provider had returned a result; after reset() a call inside
\* the throttle interval returned null.
C29_Witness ==
    /\ ret.called /\ ret.path = "throttled" /\ ret.value = NULL
    /\ resetSince /\ requestCount = 1
    /\ lastKnownSpeedLimit = NULL
    /\ now - lastSpeedLimitRequest < ThrottleWindow

\* C29 as stated: reset() empties the cache and last-known-good and leaves
\* the throttle timestamp and the provider configuration, and every call
\* made after reset() and less than 15 s after the last resolution reached
\* the provider stage returns null without network I/O.
C29_Original ==
    [][ /\ ResetFrame
        /\ CallAfterReset => ReturnsNullAtOnce
      ]_vars

\* The results that the resolver holds in its cache or as last-known-good.
Stored == ({ cache[k] : k \in Keys } \cup { lastKnownSpeedLimit }) \ { NULL }

\* C30 (as amended): a result of the primary provider that getSpeedLimit
\* caches or keeps as last-known-good has a numeric speedLimit; a result of
\* the fallback provider has the limit parsed from the maxspeed tag of the
\* closest tagged way, and null when that tag contains no digits: such a way
\* is selected like any other, also over a farther way with a parseable
\* limit, and its result is returned, cached and kept as last-known-good
\* with source 'osm'.
C30_StoredLimits ==
    /\ [](\A v \in Stored :
            /\ v.source \in {"here", "osm"}
            /\ v.source = "here" => v.speedLimit \in {130, 100, 50, 80}
            /\ v.source = "osm" => v.speedLimit \in {80, NoLimit})
    /\ [][ \A elements \in Responses :
             (calls[1].pc = "osm" /\ OsmAnswer(1, elements))
                => /\ ret'.path = "fresh" /\ ret'.value.source = "osm"
                   /\ ret'.value.speedLimit =
                         (IF elements[1].maxspeed = NoDigits THEN NoLimit ELSE 80)
                   /\ cache'[ret'.key] = ret'.value
                   /\ lastKnownSpeedLimit' = ret'.value
         ]_vars

\* A result without a numeric limit is cached and is last-known-good.
C30_Witness ==
    /\ ret.path = "fresh" /\ ret.value.source = "osm"
    /\ ret.value.speedLimit = NoLimit
    /\ cache[ret.key] = ret.value /\ lastKnownSpeedLimit = ret.value

\* C30 as stated: every result in the cache or kept as last-known-good has
\* a non-null numeric speedLimit.
C30_Original == \A v \in Stored : v.speedLimit # NoLimit

=============================================================================
